---- MODULE Spec2Model ----
(***************************************************************************)
(* go-blog-fetch (src/main.go): a sequential script that, on every run,    *)
(* scrapes a listing page into an SQLite table articles(title, url, date,  *)
(* read, UNIQUE(url, title)), then posts the first three unread URLs to a  *)
(* webhook and marks them read.  The table is file-backed, so it persists  *)
(* from one run of the process to the next.                                *)
(***************************************************************************)
EXTENDS Integers, Sequences, FiniteSets, TLC

\* ------------------------------------------------------------------ bounds
MaxRuns == 3        \* process invocations in one behaviour
MaxListing == 2     \* <li> items on one listing page

\* --------------------------------------------------------- program constants
Friday == 5         \* time.Friday
StatusOK == 200     \* http.StatusOK
SliceHigh == 3      \* urls[:3]

\* ---------------------------------------------------------- input universes
\* time.Weekday runs from Sunday = 0 to Saturday = 6; Thursday and Friday
\* stand for the two branches of the weekday test
Weekdays == {Friday - 1, Friday}
\* the <a href title> pairs a page can list; an href is its sequence of path
\* segments (/articles/foo), and /articles/foo is listed under two titles
Links == {[href |-> <<"articles", "foo">>, title |-> "A"],
          [href |-> <<"articles", "foo">>, title |-> "B"],
          [href |-> <<"articles", "bar">>, title |-> "A"],
          [href |-> <<"articles", "baz">>, title |-> "A"]}
\* the .date text YYYY.MM.DD as <<year, month, day>>; the last one is malformed
RawDates == {<<2023, 1, 1>>, <<2023, 1, 2>>, <<2023, 2, 30>>}
Items == {[href |-> k.href, title |-> k.title, date |-> d] : k \in Links, d \in RawDates}
GetStatuses == {200, 404}
PostStatuses == {200, 500}
Nil == "nil"

\* ------------------------------------------------------------------- state
VARIABLES
    store,      \* the rows of table articles (blog.db)
    pc,         \* position of the process in main
    runs,       \* invocations started so far
    weekday,    \* time.Now().Weekday() of this run
    gets,       \* HTTP GETs issued to the listing URL in this run
    getStatus,  \* status of the listing response of this run, 0 when there is none
    saveCalls,  \* save transactions opened in this run
    inserted,   \* rows inserted by stmt.Exec in this run
    skipped,    \* UNIQUE constraint failures skipped in this run
    saved,      \* the (url, title) pairs of every committed save pass
    queried,    \* the unread query of this run has been executed
    store0,     \* the table as the unread query of this run saw it
    rows,       \* the rows the unread query returned, in result order
    urls,       \* main's urls slice after the slice expression urls[:3]
    log,        \* one entry per loop iteration of this run
    finished,   \* "finish" has been printed in this run
    notified    \* keys of the rows marked read after a webhook answer of 200

vars == <<store, pc, runs, weekday, gets, getStatus, saveCalls, inserted, skipped,
          saved, queried, store0, rows, urls, log, finished, notified>>

\* ----------------------------------------------------------------- helpers
Key(r) == <<r.url, r.title>>

RECURSIVE SeqsUpTo(_, _)
SeqsUpTo(S, n) ==
    IF n = 0 THEN {<< >>}
    ELSE LET shorter == SeqsUpTo(S, n - 1)
         IN shorter \cup {Append(s, x) : s \in {t \in shorter : Len(t) = n - 1}, x \in S}

Listings == SeqsUpTo(Items, MaxListing)

\* time.Parse("2006.01.02", date): the month and the day must exist
DaysIn(y, m) ==
    IF m \in {4, 6, 9, 11} THEN 30
    ELSE IF m = 2 THEN (IF (y % 4 = 0 /\ y % 100 # 0) \/ y % 400 = 0 THEN 29 ELSE 28)
    ELSE 31

ParseOK(d) == d[2] \in 1..12 /\ d[3] \in 1..DaysIn(d[1], d[2])

\* the pages on which every date parses, and those with a date that does not
ParsablePages == {l \in Listings : \A j \in 1..Len(l) : ParseOK(l[j].date)}

MalformedPages == Listings \ ParsablePages

\* t.Format("2006-01-02"): the ISO string, kept as the number YYYYMMDD, whose
\* order is the byte order of the string the table compares
OutputDate(d) == d[1] * 10000 + d[2] * 100 + d[3]

\* strings.Replace(href, "/articles/", "", 1): drop the first such segment
RECURSIVE StripPrefix(_)
StripPrefix(h) ==
    IF h = << >> THEN << >>
    ELSE IF Head(h) = "articles" THEN Tail(h)
    ELSE <<Head(h)>> \o StripPrefix(Tail(h))

\* url.JoinPath(baseURL, path)
JoinPath(base, path) == <<base>> \o path

Endpoint(href) == JoinPath("base", StripPrefix(href))

\* article{title: title, url: endpoint, date: outputDate}
ParseItem(it) == [title |-> it.title, url |-> Endpoint(it.href), date |-> OutputDate(it.date)]

ParseListing(l) == [j \in 1..Len(l) |-> ParseItem(l[j])]

\* INSERT INTO articles (title, url, date) VALUES (?, ?, ?) under
\* UNIQUE (url, title); read takes its default FALSE.  A constraint failure
\* leaves the table as it was.
UniqueFails(tbl, a) == \E r \in tbl : Key(r) = Key(a)

\* mutant: INSERT OR REPLACE, the stored row gives way to the new one
InsertOrReplace(tbl, a) ==
    {r \in tbl : Key(r) # Key(a)}
        \cup {[title |-> a.title, url |-> a.url, date |-> a.date, read |-> FALSE]}

InsertRow(tbl, a) ==
    IF UniqueFails(tbl, a) THEN tbl
    ELSE tbl \cup {[title |-> a.title, url |-> a.url, date |-> a.date, read |-> FALSE]}

\* mutant: the first duplicate ends the loop
RECURSIVE SaveLoopAbortOnDup(_, _)
SaveLoopAbortOnDup(tbl, as) ==
    IF as = << >> \/ UniqueFails(tbl, Head(as)) THEN tbl
    ELSE SaveLoopAbortOnDup(InsertRow(tbl, Head(as)), Tail(as))

\* the loop of saveAllArticles: a duplicate is skipped, the loop continues
RECURSIVE SaveLoop(_, _)
SaveLoop(tbl, as) ==
    IF as = << >> THEN tbl
    ELSE SaveLoop(InsertRow(tbl, Head(as)), Tail(as))

\* mutant: the update touches one row of the url only
UpdateReadOneRow(tbl, u) ==
    IF \E r \in tbl : r.url = u
    THEN LET one == CHOOSE r \in tbl : r.url = u
         IN (tbl \ {one}) \cup {[one EXCEPT !.read = TRUE]}
    ELSE tbl

\* mutant: the update has no WHERE clause
UpdateReadAll(tbl, u) == {[r EXCEPT !.read = TRUE] : r \in tbl}

\* UPDATE articles SET read = 1 WHERE url = ?
UpdateRead(tbl, u) ==
    {IF r.url = u THEN [r EXCEPT !.read = TRUE] ELSE r : r \in tbl}

\* SELECT url FROM articles WHERE read = 0
Unread(tbl) == {r \in tbl : ~r.read}

\* ... ORDER BY date: every order of the unread rows that ascends by date
\* (rows of equal date come in an order the engine picks)
IsOrdered(s) == \A a, b \in 1..Len(s) : a < b => s[a].date <= s[b].date

\* mutant: the query has no ORDER BY
OrderingsUnsorted(S) ==
    {s \in [1..Cardinality(S) -> S] : \A r \in S : \E j \in 1..Cardinality(S) : s[j] = r}

Orderings(S) ==
    {s \in [1..Cardinality(S) -> S] :
        /\ \A r \in S : \E j \in 1..Cardinality(S) : s[j] = r
        /\ IsOrdered(s)}

\* capacity of a slice grown from nil by n appends of one element
RECURSIVE AppendCap(_)
AppendCap(n) ==
    IF n = 0 THEN 0
    ELSE IF AppendCap(n - 1) >= n THEN AppendCap(n - 1)
    ELSE IF AppendCap(n - 1) = 0 THEN 1
    ELSE 2 * AppendCap(n - 1)

\* urls[:3] panics when 3 exceeds the capacity
SlicePanics(n) == SliceHigh > AppendCap(n)

SliceLen(n) == SliceHigh

\* mutant: the weekday test is inverted
ShouldFetchOnFriday(wd) == wd = Friday

\* main, line 64: fetchAllArticles runs unless today is Friday
ShouldFetch(wd) == wd # Friday

\* mutant: the status of the listing response is not tested
FetchNeverAborts(status) == FALSE

\* fetchAllArticles, line 154: a listing status other than 200 ends the pass
FetchAborts(status) == status # StatusOK

\* notifySlack's return value when http.Post gave a response: the err of
\* http.Post, which is nil there
NotifyReturn(postErr, status) ==
    IF status # StatusOK THEN postErr ELSE Nil

\* ------------------------------------------------------------------- Init
\* init() opened a new blog.db and created the empty table
Init ==
    /\ store = {}
    /\ pc = "main"
    /\ runs = 1
    /\ weekday \in Weekdays
    /\ gets = 0
    /\ getStatus = 0
    /\ saveCalls = 0
    /\ inserted = 0
    /\ skipped = 0
    /\ saved = {}
    /\ queried = FALSE
    /\ store0 = {}
    /\ rows = << >>
    /\ urls = << >>
    /\ log = << >>
    /\ finished = FALSE
    /\ notified = {}

\* ----------------------------------------------------------------- actions
\* main, lines 64-67, on a Friday: fetchAllArticles is not called
SkipFetch ==
    /\ pc = "main"
    /\ ~ShouldFetch(weekday)
    /\ pc' = "query"
    /\ UNCHANGED <<store, runs, weekday, gets, getStatus, saveCalls, inserted, skipped,
                   saved, queried, store0, rows, urls, log, finished, notified>>

\* fetchAllArticles: http.Get fails, log.Fatal exits
FetchGetError ==
    /\ pc = "main"
    /\ ShouldFetch(weekday)
    /\ gets' = gets + 1
    /\ pc' = "fatal"
    /\ UNCHANGED <<store, runs, weekday, getStatus, saveCalls, inserted, skipped,
                   saved, queried, store0, rows, urls, log, finished, notified>>

\* fetchAllArticles: the listing answers with a status other than 200; the
\* function returns and main goes on
FetchNon200 ==
    /\ pc = "main"
    /\ ShouldFetch(weekday)
    /\ \E status \in GetStatuses :
        /\ FetchAborts(status)
        /\ gets' = gets + 1
        /\ getStatus' = status
        /\ pc' = "query"
    /\ UNCHANGED <<store, runs, weekday, saveCalls, inserted, skipped,
                   saved, queried, store0, rows, urls, log, finished, notified>>

\* fetchAllArticles: a date on the page does not parse, log.Fatal exits
FetchParseError ==
    /\ pc = "main"
    /\ ShouldFetch(weekday)
    /\ \E status \in GetStatuses :
        /\ ~FetchAborts(status)
        /\ MalformedPages # {}
        /\ gets' = gets + 1
        /\ getStatus' = status
        /\ pc' = "fatal"
    /\ UNCHANGED <<store, runs, weekday, saveCalls, inserted, skipped,
                   saved, queried, store0, rows, urls, log, finished, notified>>

\* fetchAllArticles and saveAllArticles: the page parses, the rows are
\* inserted in one transaction and committed
FetchAndSave ==
    /\ pc = "main"
    /\ ShouldFetch(weekday)
    /\ \E status \in GetStatuses, l \in ParsablePages :
        /\ ~FetchAborts(status)
        /\ gets' = gets + 1
        /\ getStatus' = status
        /\ saveCalls' = saveCalls + 1
        /\ store' = SaveLoop(store, ParseListing(l))
        /\ inserted' = inserted + Cardinality(store') - Cardinality(store)
        /\ skipped' = skipped + Len(l) - (Cardinality(store') - Cardinality(store))
        /\ saved' = saved \cup {Key(ParseItem(l[j])) : j \in 1..Len(l)}
        /\ pc' = "query"
    /\ UNCHANGED <<runs, weekday, queried, store0, rows, urls, log, finished, notified>>

\* saveAllArticles: Begin, Prepare, Exec or Commit fails with another error;
\* log.Fatal exits and nothing is committed
FetchSaveError ==
    /\ pc = "main"
    /\ ShouldFetch(weekday)
    /\ \E status \in GetStatuses :
        /\ ~FetchAborts(status)
        /\ ParsablePages # {}
        /\ gets' = gets + 1
        /\ getStatus' = status
        /\ saveCalls' = saveCalls + 1
        /\ pc' = "fatal"
    /\ UNCHANGED <<store, runs, weekday, inserted, skipped, saved, queried, store0,
                   rows, urls, log, finished, notified>>

\* main, lines 70-84: the unread query fills urls, then urls[:3]
QueryUnread ==
    /\ pc = "query"
    /\ \E s \in Orderings(Unread(store)) :
        /\ rows' = s
        /\ IF SlicePanics(Len(s))
           THEN /\ urls' = << >>
                /\ pc' = "panic"
           ELSE /\ urls' = [j \in 1..SliceLen(Len(s)) |-> s[j].url]
                /\ pc' = "loop"
    /\ queried' = TRUE
    /\ store0' = store
    /\ UNCHANGED <<store, runs, weekday, gets, getStatus, saveCalls, inserted, skipped,
                   saved, log, finished, notified>>

\* main, lines 72-80: the query or a Scan fails, log.Fatal exits
QueryError ==
    /\ pc = "query"
    /\ queried' = TRUE
    /\ store0' = store
    /\ pc' = "fatal"
    /\ UNCHANGED <<store, runs, weekday, gets, getStatus, saveCalls, inserted, skipped,
                   saved, rows, urls, log, finished, notified>>

\* one loop iteration: http.Post fails inside notifySlack, log.Fatal exits
NotifyPostError ==
    /\ pc = "loop"
    /\ Len(log) < Len(urls)
    /\ log' = Append(log, [url |-> urls[Len(log) + 1], status |-> 0, ret |-> "exit",
                           marked |-> FALSE])
    /\ pc' = "fatal"
    /\ UNCHANGED <<store, runs, weekday, gets, getStatus, saveCalls, inserted, skipped,
                   saved, queried, store0, rows, urls, finished, notified>>

\* one loop iteration: notifySlack gets a response and returns; main exits on
\* a returned error, else calls markAsRead, which commits or exits
NotifyAndMark ==
    /\ pc = "loop"
    /\ Len(log) < Len(urls)
    /\ \E status \in PostStatuses, dbOK \in BOOLEAN :
        LET u == urls[Len(log) + 1]
            ret == NotifyReturn(Nil, status)
        IN  IF ret # Nil
            THEN /\ dbOK
                 /\ log' = Append(log, [url |-> u, status |-> status, ret |-> ret,
                                        marked |-> FALSE])
                 /\ pc' = "fatal"
                 /\ UNCHANGED <<store, notified>>
            ELSE IF dbOK
            THEN /\ store' = UpdateRead(store, u)
                 /\ notified' = IF status = StatusOK
                                THEN notified \cup {Key(r) : r \in {x \in store : x.url = u}}
                                ELSE notified
                 /\ log' = Append(log, [url |-> u, status |-> status, ret |-> ret,
                                        marked |-> TRUE])
                 /\ pc' = "loop"
            ELSE /\ log' = Append(log, [url |-> u, status |-> status, ret |-> ret,
                                        marked |-> FALSE])
                 /\ pc' = "fatal"
                 /\ UNCHANGED <<store, notified>>
    /\ UNCHANGED <<runs, weekday, gets, getStatus, saveCalls, inserted, skipped, saved,
                   queried, store0, rows, urls, finished>>

\* main, line 94: fmt.Println("finish") and the process exits with code 0
Finish ==
    /\ pc = "loop"
    /\ Len(log) = Len(urls)
    /\ finished' = TRUE
    /\ pc' = "done"
    /\ UNCHANGED <<store, runs, weekday, gets, getStatus, saveCalls, inserted, skipped,
                   saved, queried, store0, rows, urls, log, notified>>

\* the next invocation of the process: init() reopens blog.db, the table is
\* as the last run left it
NewRun ==
    /\ pc \in {"done", "fatal", "panic"}
    /\ runs < MaxRuns
    /\ runs' = runs + 1
    /\ weekday' \in Weekdays
    /\ pc' = "main"
    /\ gets' = 0
    /\ getStatus' = 0
    /\ saveCalls' = 0
    /\ inserted' = 0
    /\ skipped' = 0
    /\ queried' = FALSE
    /\ store0' = {}
    /\ rows' = << >>
    /\ urls' = << >>
    /\ log' = << >>
    /\ finished' = FALSE
    /\ UNCHANGED <<store, saved, notified>>

Next ==
    \/ SkipFetch
    \/ FetchGetError
    \/ FetchNon200
    \/ FetchParseError
    \/ FetchAndSave
    \/ FetchSaveError
    \/ QueryUnread
    \/ QueryError
    \/ NotifyPostError
    \/ NotifyAndMark
    \/ Finish
    \/ NewRun

Spec == Init /\ [][Next]_vars

\* ------------------------------------------------------------ properties
Min(a, b) == IF a < b THEN a ELSE b

\* the rows whose urls the loop of this run ranges over
Selected == {rows[j] : j \in 1..Len(urls)}

SelectedUrls == {urls[j] : j \in 1..Len(urls)}

\* C1: the notify loop selects at most 3 rows, each unread when queried, and
\* when more than 3 rows are unread it selects 3 of them such that no unread
\* row left out has a date strictly earlier than a selected one
C1_SelectsEarliestThree ==
    queried =>
        /\ Len(urls) <= 3
        /\ Cardinality(Selected) = Len(urls)
        /\ Selected \subseteq Unread(store0)
        /\ \A j \in 1..Len(urls) : urls[j] = rows[j].url
        /\ Len(rows) > 3 => Len(urls) = 3
        /\ \A r \in Unread(store0) \ Selected : \A x \in Selected : ~(r.date < x.date)

\* more than 3 rows were unread, and a later-dated one was left out
C1_Witness ==
    /\ pc = "loop"
    /\ Cardinality(Unread(store0)) > 3
    /\ \E r \in Unread(store0) \ Selected : \E x \in Selected : x.date < r.date

\* C2 (as claimed): a run without network or storage error ends in the
\* terminal state with the completion marker printed, having processed
\* min(n, 3) URLs, n the number of unread rows
C2_ProcessesMinAndFinishes ==
    (/\ pc \in {"done", "panic"}
     /\ \A j \in 1..Len(log) : log[j].status = StatusOK /\ log[j].marked)
    => /\ pc = "done"
       /\ finished
       /\ Len(log) = Min(Cardinality(Unread(store0)), 3)

\* C3 (as claimed): a webhook answer other than 200 makes notifySlack return
\* an error, the URL is not marked, and its rows are still unread
C3_Non200NotMarked ==
    \A j \in 1..Len(log) :
        (log[j].ret # "exit" /\ log[j].status # StatusOK) =>
            /\ log[j].ret # Nil
            /\ ~log[j].marked
            /\ \A r \in Unread(store0) :
                (/\ r.url = log[j].url
                 /\ \A k \in 1..Len(log) : log[k].url = r.url => log[k].status # StatusOK)
                => r \in store


\* C4 (as claimed): once a URL has been notified and marked, no row with that
\* URL is unread in any later state, whatever runs follow
C4_UrlNeverUnreadAgain ==
    \A k \in notified : \A r \in store : r.url = k[1] => r.read

\* C4 (amended): the rows marked after a 200 answer stay read for ever, and
\* no row of a URL marked in this run is unread for the rest of the run; the
\* URL is unread again only through a row a later save pass has inserted
C4_MarkedRowsStayRead ==
    /\ \A k \in notified : \A r \in store : Key(r) = k => r.read
    /\ \A k \in notified : \E r \in store : Key(r) = k
    /\ \A j \in 1..Len(log) :
        log[j].marked => \A r \in store : r.url = log[j].url => r.read

\* a marked URL is back among the unread rows under another title
C4_Witness ==
    \E k \in notified : \E r \in store :
        r.url = k[1] /\ ~r.read /\ Key(r) \notin notified

\* the premise of C5: the run ended normally, three or more rows were unread
\* and every webhook call and update succeeded
C5_Premise ==
    /\ pc = "done"
    /\ Cardinality(Unread(store0)) >= 3
    /\ \A j \in 1..Len(log) : log[j].status = StatusOK /\ log[j].marked

\* the webhook calls of the run: one per selected row, in ascending date order
C5_Calls ==
    /\ Len(log) = 3
    /\ \A j \in 1..3 : log[j].url = rows[j].url
    /\ \A a, b \in 1..3 : a < b => rows[a].date <= rows[b].date

\* C5 (as claimed): exactly the 3 selected rows have become read, every
\* other row is as it was
C5_OnlySelectedRowsMarked ==
    C5_Premise =>
        /\ C5_Calls
        /\ store = {IF r \in Selected THEN [r EXCEPT !.read = TRUE] ELSE r : r \in store0}

\* C5 (amended): every row whose url is the url of a selected row has become
\* read, every row of another url is as it was
C5_RowsOfSelectedUrlsMarked ==
    C5_Premise =>
        /\ C5_Calls
        /\ store = {IF r.url \in SelectedUrls THEN [r EXCEPT !.read = TRUE] ELSE r : r \in store0}

\* an unread row outside the selection shares its url with a selected row,
\* and another unread row keeps its flag
C5_Witness ==
    /\ C5_Premise
    /\ \E r \in Unread(store0) \ Selected : r.url \in SelectedUrls

C5_WitnessFrame ==
    /\ C5_Premise
    /\ \E r \in Unread(store0) : r.url \notin SelectedUrls /\ r \in store

\* C6: the table holds exactly one row for each (url, title) pair of every
\* committed save pass, duplicates within a pass and across passes included
C6_OneRowPerPair ==
    /\ \A k \in saved : Cardinality({r \in store : Key(r) = k}) = 1
    /\ \A r \in store : Key(r) \in saved

\* a pass skipped a duplicate and still inserted and committed another row
C6_Witness ==
    /\ pc = "query"
    /\ skipped > 0
    /\ inserted > 0

C8_Non200SkipsSave ==
    (gets > 0 /\ getStatus # StatusOK /\ getStatus # 0) =>
        /\ inserted = 0
        /\ saveCalls = 0
        /\ pc = "query" \/ queried

\* a run whose listing GET was answered 404 notifies from the stored rows
C8_Witness ==
    /\ getStatus = 404
    /\ pc = "loop"
    /\ Len(log) > 0

\* C9 (as claimed): a failed notify or mark-as-read for the N-th article ends
\* the process there: the article is not marked and no later one is tried
C9_FailureAborts ==
    \A j \in 1..Len(log) :
        (log[j].status # StatusOK \/ ~log[j].marked) =>
            /\ j = Len(log)
            /\ pc = "fatal"
            /\ ~log[j].marked

\* C10: a step keeps every row with its title, url and date; a read flag
\* only goes from false to true and only in the notify loop; a new row comes
\* from the fetch step only and is unread
C10_Step ==
    /\ \A r \in store :
        \/ r \in store'
        \/ /\ ~r.read
           /\ [r EXCEPT !.read = TRUE] \in store'
           /\ pc = "loop"
    /\ \A r \in store' \ store :
        \/ /\ \A x \in store : Key(x) # Key(r)
           /\ ~r.read
           /\ pc = "main"
        \/ /\ r.read
           /\ [r EXCEPT !.read = FALSE] \in store
           /\ pc = "loop"
    /\ Cardinality(store') >= Cardinality(store)

C10_LifecycleMonotone == [][C10_Step]_vars

\* a later fetch pass has added a row to a table that holds read rows
C10_Witness ==
    /\ runs > 1
    /\ inserted > 0
    /\ \E r \in store : r.read
    /\ \E r \in store : ~r.read

====
